---- MODULE Spec2Model ----
(***************************************************************************)
(* Model of project_groupC.py: the routing core of the parcel tracker.     *)
(*   dijkstra(graph, start, goal)            lines 86-104    Spec          *)
(*   compute_realistic_eta(path, time_graph) lines 107-117   SpecEta       *)
(*   the UI script that calls them           lines 148-203   SpecApp       *)
(*                                                                         *)
(* A node is a city name.  Python orders the (cost, node, path) tuples on  *)
(* the heap by cost, then by the node string, then by the path list, so a  *)
(* node is modelled by its rank in Python's string order: an integer.      *)
(* A graph is a dict of dicts: a function from its keys to the sequence of *)
(* <<neighbour, weight>> items in the dict's insertion order.              *)
(***************************************************************************)
EXTENDS Integers, Sequences, FiniteSets, TLC

VARIABLES
    graph,        \* dijkstra's argument graph
    start,        \* dijkstra's argument start
    goal,         \* dijkstra's argument goal
    pq,           \* the heap's entries, in the order they were pushed
    visited,      \* the visited set
    cur,          \* the tuple the last heappop returned (None before the first)
    before,       \* history: the heap as it was when the last heappop was called
    pops,         \* history: how often heappop ran
    adds,         \* history: per node, how often visited.add(node) ran
    pc,           \* position of the script
    path,         \* the caller's path
    total_cost,   \* the caller's total_cost
    time_graph,   \* compute_realistic_eta's argument time_graph
    eta,          \* what compute_realistic_eta returned or raised
    ORDERS,       \* the order table loaded from order.json
    order_id,     \* what decode_qr returned
    destination   \* order["City"]

vars == <<graph, start, goal, pq, visited, cur, before, pops, adds, pc, path, total_cost,
          time_graph, eta, ORDERS, order_id, destination>>

---------------------------------------------------------------------------
\* The generic inputs: graphs over three node identifiers with at most
\* MaxEdges arcs of weight 0..MaxWeight, paths of at most MaxPathLen nodes,
\* order tables of at most NumOrders orders.
MaxEdges == 3
MaxWeight == 1
MaxPathLen == 3
NumOrders == 2

Nodes == {1, 2, 3}
Weights == 0..MaxWeight

---------------------------------------------------------------------------
\* Values.

None == [none |-> TRUE]

\* float("inf") and the finite costs, kept apart from each other.
Infinity == [fin |-> FALSE, val |-> 0]
Finite(c) == [fin |-> TRUE, val |-> c]

NoEdges == <<>>

\* graph.get(node, {}).items(): the node's items, none for a missing key.
Items(g, node) == IF node \in DOMAIN g THEN g[node] ELSE NoEdges

\* The directed arcs <<u, v, w>> of a graph.
Arcs(g) ==
    UNION {{<<u, g[u][i][1], g[u][i][2]>> : i \in DOMAIN g[u]} : u \in DOMAIN g}

---------------------------------------------------------------------------
\* The hardcoded configuration.  The six city names by their rank in Python's
\* string order: "Bentong" < "Jerantut" < "Kuala Krau" < "Kuantan" < "Maran"
\* < "Raub".
Bentong == 1
Jerantut == 2
KualaKrau == 3
Kuantan == 4
Maran == 5
Raub == 6

Cities == {Bentong, Jerantut, KualaKrau, Kuantan, Maran, Raub}

\* A city name an order may carry that is no node of the graphs.
UnknownCity == Raub + 1

START_NODE == Bentong

COST_GRAPH ==
    (Bentong :> <<<<Raub, 2>>, <<KualaKrau, 4>>>>) @@
    (Raub :> <<<<Jerantut, 6>>>>) @@
    (Jerantut :> <<<<Maran, 4>>>>) @@
    (KualaKrau :> <<<<Maran, 3>>>>) @@
    (Maran :> <<<<Kuantan, 3>>>>) @@
    (Kuantan :> <<>>)

\* A duration graph that lacks the arc Maran -> Kuantan.
TIME_GRAPH_MissingArc ==
    (Bentong :> <<<<Raub, 31>>, <<KualaKrau, 71>>>>) @@
    (Raub :> <<<<Jerantut, 99>>>>) @@
    (Jerantut :> <<<<Maran, 78>>>>) @@
    (KualaKrau :> <<<<Maran, 59>>>>) @@
    (Maran :> <<>>) @@
    (Kuantan :> <<>>)

TIME_GRAPH ==
    (Bentong :> <<<<Raub, 31>>, <<KualaKrau, 71>>>>) @@
    (Raub :> <<<<Jerantut, 99>>>>) @@
    (Jerantut :> <<<<Maran, 78>>>>) @@
    (KualaKrau :> <<<<Maran, 59>>>>) @@
    (Maran :> <<<<Kuantan, 68>>>>) @@
    (Kuantan :> <<>>)

---------------------------------------------------------------------------
\* heapq on (cost, node, path) tuples.

\* Python's list order: the first differing element decides, a proper prefix
\* is smaller.
RECURSIVE ListLess(_, _)
ListLess(p, q) ==
    IF q = <<>> THEN FALSE
    ELSE IF p = <<>> THEN TRUE
    ELSE IF Head(p) # Head(q) THEN Head(p) < Head(q)
    ELSE ListLess(Tail(p), Tail(q))

\* Python's tuple order on (cost, node, path).
TupleLess(a, b) ==
    \/ a.cost < b.cost
    \/ a.cost = b.cost /\ a.node < b.node
    \/ a.cost = b.cost /\ a.node = b.node /\ ListLess(a.path, b.path)

\* A heap that gives back its oldest entry, whatever the costs.
HeapFirstIndex(h) == 1

\* A heap that compares the costs alone and, among equal costs, gives back
\* the entry pushed first.
HeapMinIndexStable(h) ==
    CHOOSE i \in 1..Len(h) :
        \A j \in 1..Len(h) :
            h[i].cost < h[j].cost \/ (h[i].cost = h[j].cost /\ i <= j)

\* heapq.heappop: the index (in push order) of the smallest entry.
HeapMinIndex(h) ==
    CHOOSE i \in 1..Len(h) : \A j \in 1..Len(h) : ~TupleLess(h[j], h[i])

RemoveAt(h, i) == SubSeq(h, 1, i - 1) \o SubSeq(h, i + 1, Len(h))

\* heapq.heappush.
HeapPush(h, e) == Append(h, e)

\* The first entry with start already on its path.
InitialHeapWithStart(s) == <<[cost |-> 0, node |-> s, path |-> <<s>>]>>

\* pq = [(0, start, [])]
InitialHeap(s) == <<[cost |-> 0, node |-> s, path |-> <<>>]>>

\* No check of the visited set.
NeverVisited(node, vis) == FALSE

\* if node in visited: continue
AlreadyVisited(node, vis) == node \in vis

\* The path replaced by the node.
ExtendDropPrefix(p, node) == <<node>>

\* path = path + [node]
Extend(p, node) == Append(p, node)

\* The arc's weight without the cost so far.
NewCostOnlyW(cost, w) == w

\* cost + w
NewCost(cost, w) == cost + w

\* for nxt, w in graph.get(node, {}).items():
\*     if nxt not in visited: heapq.heappush(pq, (cost + w, nxt, path))
RECURSIVE PushNeighbours(_, _, _, _, _)
PushNeighbours(h, items, cost, p, vis) ==
    IF items = <<>> THEN h
    ELSE LET nxt == Head(items)[1]
             w == Head(items)[2]
             h2 == IF nxt \notin vis
                   THEN HeapPush(h, [cost |-> NewCost(cost, w), node |-> nxt, path |-> p])
                   ELSE h
         IN PushNeighbours(h2, Tail(items), cost, p, vis)

\* The empty path with cost 0.
NoRouteZero == [path |-> <<>>, cost |-> Finite(0)]

\* return [], float("inf")
NoRoute == [path |-> <<>>, cost |-> Infinity]

\* One pass of dijkstra's while loop, or the return after it.
DijkstraStep ==
    /\ pc = "dijkstra"
    /\ IF pq = <<>>
       THEN /\ path' = NoRoute.path
            /\ total_cost' = NoRoute.cost
            /\ pc' = "returned"
            /\ UNCHANGED <<pq, visited, cur, before, pops, adds>>
       ELSE LET i == HeapMinIndex(pq)
                e == pq[i]
                rest == RemoveAt(pq, i)
                p == Extend(e.path, e.node)
            IN /\ cur' = e
               /\ before' = pq
               /\ pops' = pops + 1
               /\ IF AlreadyVisited(e.node, visited)
                  THEN /\ pq' = rest
                       /\ UNCHANGED <<visited, adds, pc, path, total_cost>>
                  ELSE /\ visited' = visited \cup {e.node}
                       /\ adds' = [adds EXCEPT ![e.node] = @ + 1]
                       /\ IF e.node = goal
                          THEN \* return path, cost
                               /\ path' = p
                               /\ total_cost' = Finite(e.cost)
                               /\ pc' = "returned"
                               /\ pq' = rest
                          ELSE /\ pq' = PushNeighbours(rest, Items(graph, e.node),
                                                       e.cost, p, visited')
                               /\ UNCHANGED <<pc, path, total_cost>>
    /\ UNCHANGED <<graph, start, goal, time_graph, eta, ORDERS, order_id, destination>>

---------------------------------------------------------------------------
\* The generic inputs: every dict-of-dicts graph over Nodes with at most
\* MaxEdges arcs and weights in Weights, the items of each inner dict in
\* every order.  A node without outgoing arcs is no key of the graph.

HasArc(g, u, v) == \E i \in DOMAIN Items(g, u) : Items(g, u)[i][1] = v

\* The inner dicts of k items: k neighbours, each once, with their weights.
AdjSeqs(k) ==
    {a \in [1..k -> Nodes \X Weights] : \A i, j \in 1..k : a[i][1] = a[j][1] => i = j}

Adj == [k \in 0..MaxEdges |-> AdjSeqs(k)]

\* The dict of dicts with the inner dicts a1, a2, a3 for the nodes 1, 2, 3;
\* a node with no items is no key.
GraphOf(a1, a2, a3) ==
    LET adj == <<a1, a2, a3>>
    IN [u \in {n \in Nodes : adj[n] # <<>>} |-> adj[u]]

\* g is one of the generic graphs: each of them is drawn once.
IsGenericGraph(g) ==
    \E k1 \in 0..MaxEdges : \E a1 \in Adj[k1] :
    \E k2 \in 0..(MaxEdges - k1) : \E a2 \in Adj[k2] :
    \E k3 \in 0..(MaxEdges - k1 - k2) : \E a3 \in Adj[k3] :
        g = GraphOf(a1, a2, a3)

\* A node that is in none of the generic graphs.
Absent == Cardinality(Nodes) + 1

NoAdds == [n \in (1..Absent) \cup Cities \cup {UnknownCity} |-> 0]

\* Entry of dijkstra(g, s, t): lines 87-88.
Enter(g, s, t) ==
    /\ graph = g
    /\ start = s
    /\ goal = t
    /\ pq = InitialHeap(s)
    /\ visited = {}
    /\ cur = None
    /\ before = <<>>
    /\ pops = 0
    /\ adds = NoAdds
    /\ pc = "dijkstra"
    /\ path = <<>>
    /\ total_cost = None

\* dijkstra on its own, on every generic graph, start and goal.
Init ==
    /\ IsGenericGraph(graph)
    /\ \E s \in Nodes, t \in Nodes \cup {Absent} : Enter(graph, s, t)
    /\ time_graph = <<>>
    /\ eta = None
    /\ ORDERS = <<>>
    /\ order_id = <<>>
    /\ destination = 0

Next == DijkstraStep

Spec == Init /\ [][Next]_vars

---------------------------------------------------------------------------
\* compute_realistic_eta(path, time_graph).

MinutesPerHour == 60

\* total_minutes / 60: the quotient, kept as a fraction.
Hours(total_minutes) == [num |-> total_minutes, den |-> MinutesPerHour]

\* time_graph[u][v]: the weight, or the KeyError of a missing key.
Lookup(tg, u, v) ==
    IF u \notin DOMAIN tg THEN [error |-> "KeyError", w |-> 0]
    ELSE IF \E i \in DOMAIN tg[u] : tg[u][i][1] = v
         THEN [error |-> "none",
               w |-> tg[u][CHOOSE i \in DOMAIN tg[u] : tg[u][i][1] = v][2]]
         ELSE [error |-> "KeyError", w |-> 0]

\* total_minutes = travel_time
AccumulateOverwrite(total_minutes, travel_time) == travel_time

\* total_minutes += travel_time
Accumulate(total_minutes, travel_time) == total_minutes + travel_time

\* node_times[v] = total_minutes
SetTime(node_times, v, total_minutes) == (v :> total_minutes) @@ node_times

\* The for loop from index i on (i counts from 1 here).
RECURSIVE EtaLoop(_, _, _, _, _)
EtaLoop(p, tg, i, total_minutes, node_times) ==
    IF i > Len(p) - 1
    THEN [error |-> "none", hours |-> Hours(total_minutes), node_times |-> node_times]
    ELSE LET u == p[i]
             v == p[i + 1]
             travel_time == Lookup(tg, u, v)
             total == Accumulate(total_minutes, travel_time.w)
         IN IF travel_time.error # "none"
            THEN [error |-> travel_time.error, hours |-> Hours(0), node_times |-> <<>>]
            ELSE EtaLoop(p, tg, i + 1, total, SetTime(node_times, v, total))

\* path[0] of an empty path raises IndexError.
compute_realistic_eta(p, tg) ==
    IF p = <<>>
    THEN [error |-> "IndexError", hours |-> Hours(0), node_times |-> <<>>]
    ELSE EtaLoop(p, tg, 1, 0, (p[1] :> 0))

\* eta_hours, node_times = compute_realistic_eta(path, TIME_GRAPH)
CallEta ==
    /\ pc = "returned"
    /\ eta' = compute_realistic_eta(path, time_graph)
    /\ pc' = IF eta'.error = "none" THEN "eta_done" ELSE "crashed"
    /\ UNCHANGED <<graph, start, goal, pq, visited, cur, before, pops, adds, path,
                   total_cost, time_graph, ORDERS, order_id, destination>>

\* The generic inputs of compute_realistic_eta: a duration graph and a
\* non-empty path of at most MaxPathLen nodes along its arcs.
RECURSIVE WalksOfLen(_, _)
WalksOfLen(g, k) ==
    IF k = 1 THEN {<<n>> : n \in Nodes}
    ELSE UNION {{Append(w, Items(g, w[Len(w)])[i][1]) :
                    i \in DOMAIN Items(g, w[Len(w)])} : w \in WalksOfLen(g, k - 1)}

Walks(g) == UNION {WalksOfLen(g, k) : k \in 1..MaxPathLen}

InitEta ==
    /\ IsGenericGraph(time_graph)
    /\ path \in Walks(time_graph)
    /\ pc = "returned"
    /\ eta = None
    /\ graph = <<>>
    /\ start = 0
    /\ goal = 0
    /\ pq = <<>>
    /\ visited = {}
    /\ cur = None
    /\ before = <<>>
    /\ pops = 0
    /\ adds = NoAdds
    /\ total_cost = None
    /\ ORDERS = <<>>
    /\ order_id = <<>>
    /\ destination = 0

NextEta == CallEta

SpecEta == InitEta /\ [][NextEta]_vars

---------------------------------------------------------------------------
\* The UI script, from the decoded upload on.

OrderIds == 1..NumOrders

\* The order tables order.json may hold: order ids to the order's City.
OrderTables ==
    UNION {[ids -> Cities \cup {UnknownCity}] : ids \in SUBSET OrderIds}

\* What decode_qr may return: nothing, an order id of the table's range, or
\* another identifier.
Decoded == {<<>>} \cup {<<i>> : i \in OrderIds \cup {NumOrders + 1}}

InitApp ==
    /\ ORDERS \in OrderTables
    /\ order_id \in Decoded
    /\ destination = 0
    /\ pc = "upload"
    /\ graph = COST_GRAPH
    /\ time_graph = TIME_GRAPH
    /\ start = START_NODE
    /\ goal = 0
    /\ pq = <<>>
    /\ visited = {}
    /\ cur = None
    /\ before = <<>>
    /\ pops = 0
    /\ adds = NoAdds
    /\ path = <<>>
    /\ total_cost = None
    /\ eta = None

\* if not order_id or order_id not in ORDERS: st.error(...); st.stop()
\* order = ORDERS[order_id]; destination = order["City"]
Verify ==
    /\ pc = "upload"
    /\ IF order_id = <<>> \/ order_id[1] \notin DOMAIN ORDERS
       THEN /\ pc' = "stopped"
            /\ UNCHANGED destination
       ELSE /\ destination' = ORDERS[order_id[1]]
            /\ pc' = "routing"
    /\ UNCHANGED <<graph, start, goal, pq, visited, cur, before, pops, adds, path,
                   total_cost, time_graph, eta, ORDERS, order_id>>

\* path, total_cost = dijkstra(COST_GRAPH, START_NODE, destination): the call.
Route ==
    /\ pc = "routing"
    /\ graph' = COST_GRAPH
    /\ start' = START_NODE
    /\ goal' = destination
    /\ pq' = InitialHeap(START_NODE)
    /\ visited' = {}
    /\ pc' = "dijkstra"
    /\ UNCHANGED <<cur, before, pops, adds, path, total_cost, time_graph, eta,
                   ORDERS, order_id, destination>>

\* The panels: the route, its cost and the ETA are shown.
Report ==
    /\ pc = "eta_done"
    /\ pc' = "reported"
    /\ UNCHANGED <<graph, start, goal, pq, visited, cur, before, pops, adds, path,
                   total_cost, time_graph, eta, ORDERS, order_id, destination>>

NextApp == Verify \/ Route \/ DijkstraStep \/ CallEta \/ Report

SpecApp == InitApp /\ [][NextApp]_vars

---------------------------------------------------------------------------
\* What the claims speak of, defined without the algorithm.

Last(p) == p[Len(p)]

\* The weight of the arc u -> v of g.
ArcWeight(g, u, v) == (CHOOSE a \in Arcs(g) : a[1] = u /\ a[2] = v)[3]

\* Every consecutive pair of p is an arc of g.
IsWalk(g, p) == \A i \in 1..(Len(p) - 1) : HasArc(g, p[i], p[i + 1])

\* The sum of the weights of p's consecutive arcs.
RECURSIVE PathWeight(_, _)
PathWeight(g, p) ==
    IF Len(p) <= 1 THEN 0
    ELSE ArcWeight(g, p[1], p[2]) + PathWeight(g, Tail(p))

NoRepeat(p) == \A i, j \in 1..Len(p) : p[i] = p[j] => i = j

\* The directed paths of g from s with at most k arcs, repeats allowed.
RECURSIVE PathsFrom(_, _, _)
PathsFrom(g, s, k) ==
    IF k = 0 THEN {<<s>>}
    ELSE LET shorter == PathsFrom(g, s, k - 1)
         IN shorter \cup
            UNION {{Append(w, Items(g, Last(w))[i][1]) :
                      i \in DOMAIN Items(g, Last(w))} : w \in shorter}

\* The nodes of g: its keys and the neighbours in its items.
NodesOf(g) == DOMAIN g \cup {a[2] : a \in Arcs(g)}

\* The directed paths from s to t.  A path without a repeated node has fewer
\* arcs than g has nodes; the paths with one arc more, which repeat a node,
\* are looked at too.
PathsTo(g, s, t) ==
    {w \in PathsFrom(g, s, Cardinality(NodesOf(g))) : Last(w) = t}

\* The nodes a directed path leads to from the nodes of S.
RECURSIVE ReachedFrom(_, _)
ReachedFrom(g, S) ==
    LET more == S \cup UNION {{Items(g, u)[i][1] : i \in DOMAIN Items(g, u)} : u \in S}
    IN IF more = S THEN S ELSE ReachedFrom(g, more)

Reachable(g, s, t) == t \in ReachedFrom(g, {s})

Returned == pc = "returned"

\* C1: when goal is reachable from start, the weight dijkstra returns is the
\* minimum of the summed arc weights over the directed paths from start to
\* goal: some path has that sum and none has a smaller one.
C1_MinimumWeight ==
    (Returned /\ Reachable(graph, start, goal)) =>
        LET weights == {PathWeight(graph, w) : w \in PathsTo(graph, start, goal)}
        IN /\ total_cost.fin
           /\ total_cost.val \in weights
           /\ \A x \in weights : x >= total_cost.val

\* C1's case: the direct arc start -> goal exists and a two-arc path beats it.
C1_Witness ==
    /\ Returned
    /\ total_cost.fin
    /\ Len(path) = 3
    /\ HasArc(graph, start, goal)
    /\ ArcWeight(graph, start, goal) > total_cost.val

\* C2: when a path exists, the returned path starts with start, ends with
\* goal, repeats no node, follows arcs of the graph, and the returned weight
\* is the sum of the weights of its arcs.
C2_PathIsRoute ==
    (Returned /\ Reachable(graph, start, goal)) =>
        /\ path # <<>>
        /\ path[1] = start
        /\ Last(path) = goal
        /\ NoRepeat(path)
        /\ IsWalk(graph, path)
        /\ total_cost = Finite(PathWeight(graph, path))

\* C2's case: a returned path of three nodes with a positive weight.
C2_Witness ==
    /\ Returned
    /\ Len(path) = 3
    /\ total_cost.fin
    /\ total_cost.val > 0

\* C5: when goal is not reachable from start, dijkstra returns the empty
\* path and positive infinity.
C5_NoRouteSentinel ==
    (Returned /\ ~Reachable(graph, start, goal)) =>
        /\ path = <<>>
        /\ total_cost = Infinity

\* C5's cases: a goal that is in no arc and no key, reached after the search
\* expanded several nodes; and a start that is no key of the graph.
C5_Witness ==
    /\ Returned
    /\ path = <<>>
    /\ \/ goal = Absent /\ Cardinality(visited) >= 2
       \/ start \notin DOMAIN graph /\ start # goal /\ goal \in DOMAIN graph

\* C6: dijkstra(graph, s, s) returns the path [s] with weight 0.
C6_StartIsGoal ==
    (Returned /\ start = goal) =>
        /\ path = <<start>>
        /\ total_cost = Finite(0)

\* C6's case: start = goal and start has outgoing arcs, one of them to itself.
C6_Witness ==
    /\ Returned
    /\ start = goal
    /\ HasArc(graph, start, start)
    /\ Len(Items(graph, start)) >= 2

\* C3: compute_realistic_eta is never called with an empty path: when
\* dijkstra returns the empty path, the caller skips the call.
C3_EtaNeverGetsEmptyPath == (eta # None) => path # <<>>

EtaDone == pc = "eta_done"

\* The value v that was returned equals the whole number n.
ReturnedEquals(v, n) == v.num = n * v.den

\* The offsets do not decrease along the path.
Monotone(p, node_times) ==
    \A i \in 1..(Len(p) - 1) : node_times[p[i]] <= node_times[p[i + 1]]

\* C4 as stated: for a non-empty path along arcs of the duration graph, the
\* start node's offset is 0, the offsets do not decrease along the path, and
\* the last node's offset equals the value the function returns.
C4_OffsetsAsStated ==
    (EtaDone /\ path # <<>> /\ IsWalk(time_graph, path)) =>
        /\ eta.node_times[path[1]] = 0
        /\ Monotone(path, eta.node_times)
        /\ ReturnedEquals(eta.hours, eta.node_times[Last(path)])

\* C4 amended: for a non-empty path of distinct nodes along arcs of the
\* duration graph, the start node's offset is 0, the offsets do not decrease
\* along the path, and the value the function returns, which is in hours, is
\* the last node's offset, which is in minutes, divided by 60.
C4_OffsetsInMinutes ==
    (EtaDone /\ path # <<>> /\ IsWalk(time_graph, path) /\ NoRepeat(path)) =>
        /\ eta.node_times[path[1]] = 0
        /\ Monotone(path, eta.node_times)
        /\ eta.hours.den # 0
        /\ eta.hours.num * 60 = eta.node_times[Last(path)] * eta.hours.den

\* C4's case: a path of three distinct nodes with a positive total.
C4_Witness ==
    /\ EtaDone
    /\ Len(path) = 3
    /\ NoRepeat(path)
    /\ eta.node_times[path[2]] > 0
    /\ eta.node_times[Last(path)] > eta.node_times[path[2]]

\* C7: from Bentong to Kuantan on COST_GRAPH dijkstra returns the path
\* Bentong, Kuala Krau, Maran, Kuantan with cost 10, and the path through
\* Raub, Jerantut and Maran costs more.
C7_BentongToKuantan ==
    (pc \in {"returned", "eta_done", "reported"} /\ start = Bentong /\ goal = Kuantan) =>
        /\ path = <<Bentong, KualaKrau, Maran, Kuantan>>
        /\ total_cost = Finite(10)
        /\ IsWalk(graph, <<Bentong, Raub, Jerantut, Maran, Kuantan>>)
        /\ PathWeight(graph, <<Bentong, Raub, Jerantut, Maran, Kuantan>>) > 10

\* C7's case: the routing to Kuantan has returned.
C7_Witness == Returned /\ graph = COST_GRAPH /\ start = Bentong /\ goal = Kuantan

\* The position, in push order, of the popped tuple in the heap it came from.
PoppedAt == CHOOSE k \in DOMAIN before : before[k] = cur

\* C8 as stated: among the candidates of equal cost on the heap, the one
\* pushed first is popped first.
C8_InsertionOrderTieBreak ==
    (pops > 0) => \A i \in 1..(PoppedAt - 1) : before[i].cost # cur.cost

\* p comes before q in the order of lists: at the first place where they
\* differ p is smaller, or p ends there.
PathBefore(p, q) ==
    \E k \in 1..(Len(q)) :
        /\ k <= Len(p) + 1
        /\ \A j \in 1..(k - 1) : p[j] = q[j]
        /\ k = Len(p) + 1 \/ p[k] < q[k]

\* C8 amended: the popped candidate has the least cost; among the candidates
\* of that cost it has the least node identifier; among those of that cost
\* and node it has the least path in the order of lists.  The order of
\* pushing plays no part.
C8_TupleOrderTieBreak ==
    (pops > 0) =>
        \A i \in DOMAIN before :
            before[i] # cur =>
               \/ cur.cost < before[i].cost
               \/ cur.cost = before[i].cost /\ cur.node < before[i].node
               \/ /\ cur.cost = before[i].cost
                  /\ cur.node = before[i].node
                  /\ PathBefore(cur.path, before[i].path)

\* C8's case: two candidates of equal cost, and the one pushed later is popped.
C8_Witness ==
    /\ pops > 0
    /\ \E i \in 1..(PoppedAt - 1) :
          before[i].cost = cur.cost /\ cur.node < before[i].node

\* C9: no node is added to the visited set, and so expanded, more than once;
\* the loop ends: heappop runs at most once for the first entry and once per
\* arc of the graph, and until the function has returned the loop's next pass
\* can run: the heap is empty, which is the return, or heappop finds its entry.
C9_Terminates ==
    /\ \A n \in DOMAIN adds : adds[n] <= 1
    /\ Cardinality(visited) <= pops
    /\ pops <= Cardinality(Arcs(graph)) + 1
    /\ Returned \/ (pc = "dijkstra" /\ (pq = <<>> \/ HeapMinIndex(pq) \in DOMAIN pq))

\* C9's case: the goal is unreachable, the search went around a cycle or a
\* self-loop, and it has returned.
C9_Witness ==
    /\ Returned
    /\ path = <<>>
    /\ \E u, v \in visited : HasArc(graph, u, v) /\ HasArc(graph, v, u)
    /\ pq = <<>>

\* The arcs of a graph without their weights.
Topology(g) == {<<a[1], a[2]>> : a \in Arcs(g)}

\* C10: COST_GRAPH and TIME_GRAPH have the same arcs, so every non-empty
\* path dijkstra returns on COST_GRAPH runs along arcs of TIME_GRAPH and
\* compute_realistic_eta ends without a KeyError.
C10_SameTopology ==
    /\ Topology(graph) = Topology(time_graph)
    /\ (pc \in {"returned", "eta_done", "crashed", "reported"} /\ path # <<>>) =>
           /\ IsWalk(time_graph, path)
           /\ pc # "crashed"
           /\ (eta # None) => eta.error = "none"

\* C10's case: the ETA of a route of four cities was computed.
C10_Witness == EtaDone /\ Len(path) = 4 /\ eta.error = "none"

====
